---------------------------- MODULE Spec2Model ----------------------------
(***************************************************************************)
(* Model of the Mandelbrot zoom animation renderer (src/src/lib.rs and     *)
(* src/src/main.rs).                                                       *)
(*                                                                         *)
(* Three specifications share the module:                                  *)
(*   Spec      - one run of main(): Animation::new, frames_native (the     *)
(*               thread fan-out / fan-in over a Mutex-guarded Vec), then   *)
(*               add_frames and write_animation.                           *)
(*   FairSpec  - main() as compiled, with the scheduling fairness of OS    *)
(*               threads.                                                  *)
(*   PixelSpec - one call of calc_pixel, the escape-time loop.             *)
(*                                                                         *)
(* A Keyframe is modelled by its index; the four f32 fields are carried    *)
(* symbolically by the interpolation parameter t = tnum / tden.  A Frame   *)
(* is modelled by the viewport it was rendered from, since draw_frame and  *)
(* Frame::from_pixels are pure functions of the viewport.                  *)
(***************************************************************************)
EXTENDS Integers, Sequences, FiniteSets, TLC

\* ---------------------------------------------------------------- bounds
MaxIndex == 3        \* keyframe indices range over 0..MaxIndex
MaxLen == 3          \* keyframe lists have 0..MaxLen entries
MaxFramerate == 6    \* framerates: 1..MaxFramerate, and FRAMERATE
MaxThreads == 3      \* a run spawns at most MaxThreads threads
CMax == 2            \* lattice inputs of calc_pixel: (-CMax..CMax)^2

\* ------------------------------------------------------ program constants
FRAMERATE == 24
MAX_ITER == 255
ESCAPE_NORM == 8192
U16_MAX == 65535

VARIABLES
    pc,                   \* position of main()
    err,                  \* the AnimationError / panic that ended the run
    framerate,            \* argument of Animation::new
    keyframes,            \* the keyframe list given to get_interpolated_frames
    file,                 \* the output file: "absent", "created", "header"
    delay,                \* Animation.delay
    anim_frames,          \* Animation.frames
    written,              \* frames the encoder has written to the file
    interpolated_frames,  \* frames_native: interpolated_frames
    frames,               \* frames_native: the Vec<Frame> inside the Mutex
    lock,                 \* the Mutex: -1 when free, else the holder's index
    strong,               \* strong count of frames_arc
    wpc,                  \* position of each spawned thread, by index
    spawned,              \* handles pushed so far
    joined,               \* handles joined so far
    ret,                  \* value returned by frames_native
    write_log,            \* history: the slot assignments made, in order
    cpc,                  \* position of calc_pixel
    c,                    \* calc_pixel: the input coordinate
    z,                    \* calc_pixel: z
    iters,                \* calc_pixel: iters
    pixel                 \* calc_pixel: the returned Pixel

mainVars == <<pc, err, framerate, keyframes, file, delay, anim_frames, written,
              interpolated_frames, frames, lock, strong, wpc, spawned, joined,
              ret, write_log>>
pixelVars == <<cpc, c, z, iters, pixel>>
vars == <<mainVars, pixelVars>>

\* ------------------------------------------------------------ lib.rs
\* Keyframe, reduced to the field the control flow reads.
Keyframe == [index : 0..MaxIndex]

\* Keyframe::interpolate: t = (idx - self.index) / (other.index - self.index),
\* every field flerp(a, b) = a + (b - a) * t, index = idx.
interpolate(self, other, idx) ==
    [index |-> idx,
     tnum  |-> idx - self.index,
     tden  |-> other.index - self.index,
     from  |-> self.index,
     to    |-> other.index]

\* Mutation of Range: the closed range start..=end.
RangeInclusive(start, end) ==
    [k \in 1..(IF end >= start THEN end - start + 1 ELSE 0) |-> start + k - 1]

\* The half-open range start..end of usize: empty when end <= start.
Range(start, end) ==
    [k \in 1..(IF end > start THEN end - start ELSE 0) |-> start + k - 1]

\* The closure of flat_map: one window of two keyframes.
WindowFrames(start, end) ==
    LET r == Range(start.index, end.index)
    IN  [k \in 1..Len(r) |-> interpolate(start, end, r[k])]

RECURSIVE FlatMapWindows(_, _)
FlatMapWindows(kfs, w) ==
    IF w + 1 > Len(kfs) THEN <<>>
    ELSE WindowFrames(kfs[w], kfs[w + 1]) \o FlatMapWindows(kfs, w + 1)

\* get_interpolated_frames: keyframes.windows(2).flat_map(..).collect()
get_interpolated_frames(kfs) == FlatMapWindows(kfs, 1)

\* (100.0 / framerate) as u16: the cast truncates toward zero and saturates.
\* For the whole-number framerates of the model the f32 quotient has the same
\* integer part as the exact quotient.
TruncDelay(fr) ==
    LET q == 100 \div fr IN IF q > U16_MAX THEN U16_MAX ELSE q

\* Frame::empty()
EmptyFrame == [kind |-> "empty"]

\* Frame::from_pixels(WIDTH, HEIGHT, draw_frame(WIDTH, HEIGHT, keyframe)):
\* the buffer holds width * height pixels, so the assertion holds.
RenderFrame(keyframe) == [kind |-> "pixels", of |-> keyframe]

\* ------------------------------------------------------------ inputs
\* Every keyframe list within the bounds: lists with fewer than two
\* keyframes, with equal adjacent indices and with decreasing indices are
\* among them.  MaxThreads caps the number of threads a run spawns.
KeyframeLists ==
    {kfs \in UNION {[1..n -> Keyframe] : n \in 0..MaxLen} :
        Len(get_interpolated_frames(kfs)) <= MaxThreads}

Framerates == (1..MaxFramerate) \cup {FRAMERATE}

NoPixelCall ==
    /\ cpc = "idle"
    /\ c = [kind |-> "none"]
    /\ z = [x |-> 0, y |-> 0]
    /\ iters = 0
    /\ pixel = [branch |-> "none"]

\* ------------------------------------------------------------ main.rs: main
NumFrames == Len(interpolated_frames)

Init ==
    /\ pc = "main"
    /\ err = "none"
    /\ framerate \in Framerates
    /\ keyframes \in KeyframeLists
    /\ file = "absent"
    /\ delay = 0
    /\ anim_frames = <<>>
    /\ written = <<>>
    /\ interpolated_frames = <<>>
    /\ frames = <<>>
    /\ lock = -1
    /\ strong = 0
    /\ wpc = <<>>
    /\ spawned = 0
    /\ joined = 0
    /\ ret = <<>>
    /\ write_log = <<>>
    /\ NoPixelCall

\* Animation::new, and main's expect("Error creating animation.") on it.
\* File::create and gif::Encoder::new are external and may fail.
AnimationNew ==
    /\ pc = "main"
    /\ \E outcome \in {"FileCreateError", "EncoderError", "Ok"} :
        /\ file' = CASE outcome = "FileCreateError" -> "absent"
                     [] outcome = "EncoderError"    -> "created"
                     [] outcome = "Ok"              -> "header"
        /\ delay' = IF outcome = "Ok" THEN TruncDelay(framerate) ELSE delay
        /\ err' = IF outcome = "Ok" THEN err ELSE outcome
        /\ pc' = IF outcome = "Ok" THEN "frames_native" ELSE "failed"
    /\ UNCHANGED <<framerate, keyframes, anim_frames, written, interpolated_frames,
                   frames, lock, strong, wpc, spawned, joined, ret, write_log>>
    /\ UNCHANGED pixelVars

\* Position of frames_native between its two loops and the unwrap.
LoopPc(s, j, n) ==
    IF s < n THEN "spawn" ELSE IF j < n THEN "join" ELSE "unwrap"

\* frames_native, lines 57-67: interpolate, preallocate one empty frame per
\* viewport, wrap the Vec in Arc<Mutex<..>>.
FramesNativeStart ==
    /\ pc = "frames_native"
    /\ LET fs == get_interpolated_frames(keyframes)
           n  == Len(fs)
       IN  /\ interpolated_frames' = fs
           /\ frames' = [k \in 1..n |-> EmptyFrame]
           /\ wpc' = [k \in 1..n |-> "unspawned"]
           /\ pc' = LoopPc(0, 0, n)
    /\ strong' = 1
    /\ lock' = -1
    /\ write_log' = <<>>
    /\ spawned' = 0
    /\ joined' = 0
    /\ UNCHANGED <<err, framerate, keyframes, file, delay, anim_frames, written, ret>>
    /\ UNCHANGED pixelVars

\* One turn of the spawn loop: Arc::clone, thread::spawn, handles.push.
Spawn ==
    /\ pc = "spawn"
    /\ strong' = strong + 1
    /\ wpc' = [wpc EXCEPT ![spawned + 1] = "draw"]
    /\ spawned' = spawned + 1
    /\ pc' = LoopPc(spawned + 1, joined, NumFrames)
    /\ UNCHANGED <<err, framerate, keyframes, file, delay, anim_frames, written,
                   interpolated_frames, frames, lock, joined, ret, write_log>>
    /\ UNCHANGED pixelVars

\* Mutation of JoinReady: the handle is dropped without waiting.
JoinDetached(index) == TRUE

\* handle.join() returns once the thread of that index has finished.

JoinReady(index) == wpc[index + 1] = "done"

\* One turn of the join loop.  No thread panics, so expect() passes.
Join ==
    /\ pc = "join"
    /\ JoinReady(joined)
    /\ joined' = joined + 1
    /\ pc' = LoopPc(spawned, joined + 1, NumFrames)
    /\ UNCHANGED <<err, framerate, keyframes, file, delay, anim_frames, written,
                   interpolated_frames, frames, lock, strong, wpc, spawned, ret,
                   write_log>>
    /\ UNCHANGED pixelVars

\* Arc::try_unwrap(frames_arc).unwrap().into_inner().unwrap(): Ok only when
\* main holds the last reference; the Mutex is never poisoned.
Unwrap ==
    /\ pc = "unwrap"
    /\ IF strong = 1
       THEN /\ ret' = frames
            /\ strong' = 0
            /\ pc' = "add_frames"
            /\ err' = err
       ELSE /\ ret' = ret
            /\ strong' = strong
            /\ pc' = "failed"
            /\ err' = "TryUnwrapPanic"
    /\ UNCHANGED <<framerate, keyframes, file, delay, anim_frames, written,
                   interpolated_frames, frames, lock, wpc, spawned, joined,
                   write_log>>
    /\ UNCHANGED pixelVars

\* Animation::add_frames
AddFrames ==
    /\ pc = "add_frames"
    /\ anim_frames' = anim_frames \o ret
    /\ pc' = "write_animation"
    /\ UNCHANGED <<err, framerate, keyframes, file, delay, written,
                   interpolated_frames, frames, lock, strong, wpc, spawned, joined,
                   ret, write_log>>
    /\ UNCHANGED pixelVars

\* Animation::write_animation, one frame per step: frame.delay = delay, then
\* encoder.write_frame, which is external and may fail; collect() stops at
\* the first Err and main's expect("Error saving animation.") panics.
WriteAnimation ==
    /\ pc = "write_animation"
    /\ IF Len(written) < Len(anim_frames)
       THEN \E ok \in BOOLEAN :
              LET frame == anim_frames[Len(written) + 1]
              IN  /\ written' = IF ok
                                THEN Append(written, [frame |-> frame, delay |-> delay])
                                ELSE written
                  /\ pc' = IF ok THEN "write_animation" ELSE "failed"
                  /\ err' = IF ok THEN err ELSE "FrameEncodeError"
       ELSE /\ written' = written
            /\ pc' = "done"
            /\ err' = err
    /\ UNCHANGED <<framerate, keyframes, file, delay, anim_frames,
                   interpolated_frames, frames, lock, strong, wpc, spawned, joined,
                   ret, write_log>>
    /\ UNCHANGED pixelVars

\* ------------------------------------------------ main.rs: the spawned thread
Workers == 0..(NumFrames - 1)

\* draw_frame and Frame::from_pixels: thread-local computation.
Draw(index) ==
    /\ wpc[index + 1] = "draw"
    /\ wpc' = [wpc EXCEPT ![index + 1] = "lock"]
    /\ UNCHANGED <<pc, err, framerate, keyframes, file, delay, anim_frames, written,
                   interpolated_frames, frames, lock, strong, spawned, joined, ret,
                   write_log>>
    /\ UNCHANGED pixelVars

\* frames_clone.lock().unwrap(): blocks until the Mutex is free.
Lock(index) ==
    /\ wpc[index + 1] = "lock"
    /\ lock = -1
    /\ lock' = index
    /\ wpc' = [wpc EXCEPT ![index + 1] = "write"]
    /\ UNCHANGED <<pc, err, framerate, keyframes, file, delay, anim_frames, written,
                   interpolated_frames, frames, strong, spawned, joined, ret,
                   write_log>>
    /\ UNCHANGED pixelVars

\* Mutation of SlotOf: the slot after the thread's own.
SlotShifted(index, n) == (index + 1) % n

\* The slot a thread assigns: frames[index].

SlotOf(index, n) == index

\* Mutation of AssignSlot: the first slot still holding the placeholder,
\* which is a push in completion order.
FirstEmptySlot(fs, index, frame) ==
    IF \E k \in 1..Len(fs) : fs[k] = EmptyFrame
    THEN LET k == CHOOSE k \in 1..Len(fs) :
                    /\ fs[k] = EmptyFrame
                    /\ \A j \in 1..(k - 1) : fs[j] # EmptyFrame
         IN  [fs EXCEPT ![k] = frame]
    ELSE fs

\* frames[index] = frame
AssignSlot(fs, index, frame) == [fs EXCEPT ![index + 1] = frame]

\* The assignment of line 78, made while holding the lock.
Write(index) ==
    /\ wpc[index + 1] = "write"
    /\ lock = index
    /\ LET slot  == SlotOf(index, NumFrames)
           frame == RenderFrame(interpolated_frames[index + 1])
       IN  /\ frames' = AssignSlot(frames, slot, frame)
           /\ write_log' = Append(write_log, [worker |-> index, slot |-> slot])
    /\ wpc' = [wpc EXCEPT ![index + 1] = "unlock"]
    /\ UNCHANGED <<pc, err, framerate, keyframes, file, delay, anim_frames, written,
                   interpolated_frames, lock, strong, spawned, joined, ret>>
    /\ UNCHANGED pixelVars

\* Mutation of GuardDropped: the guard is leaked and the mutex stays held.
GuardLeaked(index) == index

\* The MutexGuard goes out of scope at the end of the closure body.

GuardDropped(index) == -1

Unlock(index) ==
    /\ wpc[index + 1] = "unlock"
    /\ lock' = GuardDropped(index)
    /\ wpc' = [wpc EXCEPT ![index + 1] = "drop"]
    /\ UNCHANGED <<pc, err, framerate, keyframes, file, delay, anim_frames, written,
                   interpolated_frames, frames, strong, spawned, joined, ret,
                   write_log>>
    /\ UNCHANGED pixelVars

\* The closure's captured frames_clone is dropped and the thread ends.
DropArc(index) ==
    /\ wpc[index + 1] = "drop"
    /\ strong' = strong - 1
    /\ wpc' = [wpc EXCEPT ![index + 1] = "done"]
    /\ UNCHANGED <<pc, err, framerate, keyframes, file, delay, anim_frames, written,
                   interpolated_frames, frames, lock, spawned, joined, ret,
                   write_log>>
    /\ UNCHANGED pixelVars

Worker(index) ==
    \/ Draw(index)
    \/ Lock(index)
    \/ Write(index)
    \/ Unlock(index)
    \/ DropArc(index)

Main ==
    \/ AnimationNew
    \/ FramesNativeStart
    \/ Spawn
    \/ Join
    \/ Unwrap
    \/ AddFrames
    \/ WriteAnimation

Next ==
    \/ AnimationNew
    \/ FramesNativeStart
    \/ Spawn
    \/ Join
    \/ Unwrap
    \/ AddFrames
    \/ WriteAnimation
    \/ \E index \in Workers : Draw(index)
    \/ \E index \in Workers : Lock(index)
    \/ \E index \in Workers : Write(index)
    \/ \E index \in Workers : Unlock(index)
    \/ \E index \in Workers : DropArc(index)

Spec == Init /\ [][Next]_vars

\* The framerate main() passes to Animation::new.
FairInit == Init /\ framerate = FRAMERATE

\* Threads are scheduled fairly by the operating system, and main runs.
FairSpec ==
    /\ FairInit
    /\ [][Next]_vars
    /\ WF_vars(Main)
    /\ \A index \in 0..(MaxThreads - 1) : WF_vars(index \in Workers /\ Worker(index))

\* ------------------------------------------------------ main.rs: calc_pixel
\* An input coordinate is either a lattice point (x, y) with integer
\* coordinates, whose orbit is exact in f32 (every intermediate value is an
\* integer below 2^24), or a coordinate given by the one fact the loop reads
\* from its f32 orbit: escape_at, the number of the first iterate z_k that
\* fails z.norm() < 8192.0 (MAX_ITER + 1 when none of z_1 .. z_MAX_ITER does;
\* z_0 = 0 never fails it).
PixelInputs ==
    [kind : {"lattice"}, x : (-CMax)..CMax, y : (-CMax)..CMax]
        \cup [kind : {"orbit"}, escape_at : 1..(MAX_ITER + 1)]

\* Complex::new(0.0, 0.0)
ComplexZero(input) ==
    IF input.kind = "lattice" THEN [x |-> 0, y |-> 0] ELSE [step |-> 0]

\* impl Mul for Complex
ComplexMul(a, b) == [x |-> a.x * b.x - a.y * b.y, y |-> a.x * b.y + a.y * b.x]

\* impl Add for Complex
ComplexAdd(a, b) == [x |-> a.x + b.x, y |-> a.y + b.y]

\* Complex::norm: the squared norm.
ComplexNorm(a) == a.x * a.x + a.y * a.y

\* z.norm() < 8192.0
NormBelow(input, zz) ==
    IF input.kind = "lattice" THEN ComplexNorm(zz) < ESCAPE_NORM
    ELSE zz.step < input.escape_at

\* z * z + c
NextZ(input, zz) ==
    IF input.kind = "lattice"
    THEN ComplexAdd(ComplexMul(zz, zz), [x |-> input.x, y |-> input.y])
    ELSE [step |-> zz.step + 1]

\* Mutation of LoopGuard: iters <= MAX_ITER.
LoopGuardInclusive(input, zz, n) == NormBelow(input, zz) /\ n <= MAX_ITER

\* The loop condition, line 108.
LoopGuard(input, zz, n) == NormBelow(input, zz) /\ n < MAX_ITER

\* Pixel::from_rgb(0.0, 0.0, 0.0)
BlackPixel == [branch |-> "cap", r |-> 0, g |-> 0, b |-> 0, a |-> 255]

\* Pixel::from_rgb(intensity^2, intensity, sqrt(intensity)) with the smooth
\* iteration count; the f32 channel values are not computed.
SmoothPixel(n) == [branch |-> "smooth", iters |-> n, a |-> 255]

NoMainRun ==
    /\ pc = "main"
    /\ err = "none"
    /\ framerate = FRAMERATE
    /\ keyframes = <<>>
    /\ file = "absent"
    /\ delay = 0
    /\ anim_frames = <<>>
    /\ written = <<>>
    /\ interpolated_frames = <<>>
    /\ frames = <<>>
    /\ lock = -1
    /\ strong = 0
    /\ wpc = <<>>
    /\ spawned = 0
    /\ joined = 0
    /\ ret = <<>>
    /\ write_log = <<>>

PixelInit ==
    /\ NoMainRun
    /\ cpc = "loop"
    /\ c \in PixelInputs
    /\ z = ComplexZero(c)
    /\ iters = 0
    /\ pixel = [branch |-> "none"]

\* One turn of the while loop, lines 108-111.
CalcPixelIterate ==
    /\ cpc = "loop"
    /\ LoopGuard(c, z, iters)
    /\ z' = NextZ(c, z)
    /\ iters' = iters + 1
    /\ UNCHANGED <<cpc, c, pixel>>
    /\ UNCHANGED mainVars

\* The loop exits and the if of lines 112-122 picks the colour.
CalcPixelReturn ==
    /\ cpc = "loop"
    /\ ~LoopGuard(c, z, iters)
    /\ pixel' = IF iters < MAX_ITER THEN SmoothPixel(iters) ELSE BlackPixel
    /\ cpc' = "done"
    /\ UNCHANGED <<c, z, iters>>
    /\ UNCHANGED mainVars

PixelNext ==
    \/ CalcPixelIterate
    \/ CalcPixelReturn

PixelSpec == PixelInit /\ [][PixelNext]_vars

\* ===================================================================
\* Properties
\* ===================================================================

\* get_interpolated_frames has returned in frames_native.
Interpolated ==
    \/ pc \in {"spawn", "join", "unwrap", "add_frames", "write_animation", "done"}
    \/ pc = "failed" /\ err \in {"TryUnwrapPanic", "FrameEncodeError"}

\* frames_native has returned its Vec<Frame> to main.
Returned ==
    \/ pc \in {"add_frames", "write_animation", "done"}
    \/ pc = "failed" /\ err = "FrameEncodeError"

\* The shared collection is being, or has been, read by main.
ReadPhase == pc = "unwrap" \/ Returned

AllJoined ==
    /\ joined = NumFrames
    /\ \A index \in Workers : wpc[index + 1] = "done"

\* The workers of the log, in the order they assigned their slots.
LogWorkers == [k \in 1..Len(write_log) |-> write_log[k].worker]

\* C1: whatever the order in which the threads finish, the Vec returned by
\* frames_native, the frames handed to the Animation and the frames the
\* encoder has been given are in viewport order: the k-th one is the frame
\* rendered from the k-th interpolated viewport, and none is the placeholder.
C1_FramesInViewportOrder ==
    /\ Returned =>
         /\ Len(ret) = NumFrames
         /\ \A k \in 1..NumFrames :
              /\ ret[k] = RenderFrame(interpolated_frames[k])
              /\ ret[k] # EmptyFrame
    /\ pc \in {"write_animation", "done"} \/ (pc = "failed" /\ err = "FrameEncodeError")
         => anim_frames = ret
    /\ Len(written) <= NumFrames
    /\ \A k \in 1..Len(written) :
         /\ written[k].frame = RenderFrame(interpolated_frames[k])
         /\ written[k].frame # EmptyFrame

\* The threads assigned their slots in reverse order and all frames were
\* submitted.
C1_Witness ==
    /\ pc = "done"
    /\ NumFrames = 3
    /\ LogWorkers = <<2, 1, 0>>
    /\ Len(written) = 3

\* C2: main reads the shared collection (try_unwrap / into_inner), and the
\* encoder is given a frame, only after every thread has finished and has
\* been joined.
C2_FullBarrier ==
    (ReadPhase \/ ret # <<>> \/ anim_frames # <<>> \/ written # <<>>) => AllJoined

\* The first frame has just been written, after three threads were joined.
C2_Witness ==
    /\ pc = "write_animation"
    /\ NumFrames = 3
    /\ Len(written) = 1
    /\ joined = 3

\* C3: every slot assignment is made by the thread of that index, no thread
\* assigns twice, a thread that is past its assignment has made exactly one,
\* and once all threads are joined every slot has exactly one writer.
C3_OneWriterPerSlot ==
    /\ \A k \in 1..Len(write_log) : write_log[k].slot = write_log[k].worker
    /\ \A j, k \in 1..Len(write_log) :
         j # k => write_log[j].worker # write_log[k].worker
    /\ \A index \in Workers :
         Cardinality({k \in 1..Len(write_log) : write_log[k].worker = index})
           = IF wpc[index + 1] \in {"unlock", "drop", "done"} THEN 1 ELSE 0
    /\ ReadPhase =>
         \A slot \in Workers :
           Cardinality({k \in 1..Len(write_log) : write_log[k].slot = slot}) = 1

\* Three threads have assigned their slots, the last spawned one first.
C3_Witness ==
    /\ pc = "unwrap"
    /\ NumFrames = 3
    /\ Len(write_log) = 3
    /\ write_log[1].worker = 2

\* A keyframe list the spec calls a configuration error.
Degenerate(kfs) ==
    \/ Len(kfs) < 2
    \/ \E k \in 1..(Len(kfs) - 1) : kfs[k].index = kfs[k + 1].index

\* C4: a keyframe list with fewer than two keyframes, or with two adjacent
\* keyframes of equal index, ends the run with a configuration error before
\* any frame task is spawned; the run does not go on to render and encode.
C4_DegenerateRejected ==
    Degenerate(keyframes) =>
      /\ pc \notin {"spawn", "join", "unwrap", "add_frames", "write_animation", "done"}
      /\ spawned = 0
      /\ written = <<>>
      /\ pc = "failed" => err \in {"ConfigurationError", "FileCreateError", "EncoderError"}

\* C5: a run that ends in failure has given the sink no partial frame
\* sequence and leaves no output file behind: all frames are written or none.
C5_NoPartialOutput ==
    pc = "failed" =>
      /\ Len(written) = 0 \/ Len(written) = NumFrames
      /\ file = "absent"

StrictlyIncreasing(kfs) ==
    \A k \in 1..(Len(kfs) - 1) : kfs[k].index < kfs[k + 1].index

RECURSIVE SumOfGaps(_, _)
SumOfGaps(kfs, k) ==
    IF k + 1 > Len(kfs) THEN 0
    ELSE (kfs[k + 1].index - kfs[k].index) + SumOfGaps(kfs, k + 1)

\* The keyframe indices of KEYFRAMES in main.rs.
KEYFRAMES == <<[index |-> 0], [index |-> 100], [index |-> 300]>>

KeyframesFrameCount == Len(get_interpolated_frames(KEYFRAMES))

\* C6: for a keyframe list of length >= 2 with strictly increasing indices,
\* get_interpolated_frames returns one viewport for each index of
\* [first.index, last.index), in ascending order without gap or duplicate
\* and none for last.index, so their number is the sum of the index gaps of
\* consecutive keyframes; KEYFRAMES, of indices 0, 100, 300, gives 300.
C6_OneViewportPerIndex ==
    /\ (Interpolated /\ Len(keyframes) >= 2 /\ StrictlyIncreasing(keyframes)) =>
         LET first == keyframes[1].index
             last  == keyframes[Len(keyframes)].index
         IN  /\ NumFrames = last - first
             /\ \A k \in 1..NumFrames : interpolated_frames[k].index = first + k - 1
             /\ \A k \in 1..NumFrames : interpolated_frames[k].index # last
             /\ NumFrames = SumOfGaps(keyframes, 1)
    /\ KeyframesFrameCount = 300

\* Three keyframes with gaps of one and two were interpolated.
C6_Witness ==
    /\ Interpolated
    /\ Len(keyframes) = 3
    /\ keyframes[1].index = 0 /\ keyframes[2].index = 1 /\ keyframes[3].index = 3
    /\ NumFrames = 3

\* round(100 / framerate), halves away from zero as f32::round does.
RoundDelay(fr) == (200 + fr) \div (2 * fr)

\* Animation::new has returned Ok.
AnimationCreated == pc \notin {"main", "failed"} \/ (pc = "failed" /\ file = "header")

\* C7: the delay computed by Animation::new is round(100 / framerate)
\* centiseconds, and every frame given to the encoder carries that delay.
C7_DelayIsRounded ==
    /\ AnimationCreated => delay = RoundDelay(framerate)
    /\ \A k \in 1..Len(written) : written[k].delay = RoundDelay(framerate)

\* C10: under fair scheduling frames_native returns: every thread gets the
\* mutex, assigns its slot and releases it, every join completes, and when
\* the collection is unwrapped main holds the only reference and the mutex
\* is free.
C10_FramesNativeTerminates ==
    /\ (pc = "frames_native") ~> (pc = "add_frames" /\ AllJoined /\ lock = -1)
    /\ [](pc = "unwrap" => (strong = 1 /\ lock = -1 /\ AllJoined))

\* frames_native has returned the frames of three threads.
C10_Witness ==
    /\ pc = "add_frames"
    /\ NumFrames = 3
    /\ strong = 0
    /\ lock = -1

\* C8: the branch taken after the loop matches the reason the loop exited:
\* an exit with |z|^2 not below 8192 gets the smooth colour, and the cap
\* branch gives black only when iters reached MAX_ITER with |z|^2 still
\* below 8192.
C8_BranchMatchesExit ==
    cpc = "done" =>
      /\ ~NormBelow(c, z) => pixel.branch = "smooth"
      /\ pixel.branch = "cap" => (iters = MAX_ITER /\ NormBelow(c, z))

\* C9: iters stays within 0..MAX_ITER during the loop and after it.
C9_ItersBounded == iters \in 0..MAX_ITER

\* The loop ran to the cap on the exact orbit of a lattice point.
C9_Witness ==
    /\ cpc = "done"
    /\ c.kind = "lattice"
    /\ iters = MAX_ITER
    /\ pixel = BlackPixel

=============================================================================
